---- MODULE Spec2Model ----
(***************************************************************************)
(* Model of the ParlerTTS command-line scripts:                            *)
(*   args_voice.py        apply_filename_strategy and main                 *)
(*   generate_samples.py  the sequential batch driver                      *)
(* Paths are sequences of one-character strings, the filesystem is a       *)
(* function from the existing paths to the tag of their last writer.       *)
(***************************************************************************)
EXTENDS Integers, Sequences, FiniteSets, TLC

VARIABLES
    files,            \* filesystem: existing path |-> last writer (0 = not a driver)
    pc,               \* position of each frame (engine call / driver process)
    filename,         \* args.output, the requested path of each frame
    strategy,         \* args.filename_strategy of each frame
    output_file,      \* value returned by apply_filename_strategy (<<>> before)
    checked,          \* whether the frame has called os.path.exists
    base,             \* local of apply_filename_strategy
    ext,              \* local of apply_filename_strategy
    counter,          \* local of apply_filename_strategy
    new_filename,     \* local of apply_filename_strategy (increment)
    random_filename,  \* local of apply_filename_strategy (random)
    log,              \* steps of main() the frame has completed, in order
    written,          \* paths the frame has handed to sf.write, in order
    clobbered,        \* whether the frame's sf.write hit a path that existed
    ext_created,      \* number of files another process has created
    bpc,              \* position of generate_samples.py
    idx,              \* index of the batch loop in its current list
    invoked,          \* speakers the batch has started an invocation for
    completed         \* speakers whose invocation exited with status 0

vars == <<files, pc, filename, strategy, output_file, checked, base, ext,
          counter, new_filename, random_filename, log, written, clobbered,
          ext_created, bpc, idx, invoked, completed>>

elocals == <<base, ext, counter, new_filename, random_filename>>
dhist == <<log, written, clobbered>>
batchvars == <<bpc, idx, invoked, completed>>

----------------------------------------------------------------------------
(* Bounds of the model *)

\* numbered files base_1 .. base_MaxN may exist before a call
MaxN == 3
\* size of the pool the 24-bit uuid prefix is drawn from
NumDraws == 2
\* files another process may create during a run
MaxExternal == 1

----------------------------------------------------------------------------
(* Paths and strings *)

Frames == {1, 2}

Strategies == {"default", "increment", "random"}

default_name ==
    <<"p","a","r","l","e","r","_","t","t","s","_","o","u","t",".","w","a","v">>

custom_name == <<"c","u","s","t","o","m",".","w","a","v">>

hidden_name == <<".","w","a","v">>

NoPath == <<>>

Digits == <<"0","1","2","3","4","5","6","7","8","9">>

HexDigits == <<"0","1","2","3","4","5","6","7","8","9","a","b","c","d","e","f">>

SuffixLen == 6

\* str(n) for n >= 0, as the f-string formats the counter
RECURSIVE Str(_)
Str(n) == IF n < 10 THEN <<Digits[n + 1]>>
          ELSE Str(n \div 10) \o <<Digits[(n % 10) + 1]>>

\* p.rfind of any character of S, 1-based, 0 when absent
RECURSIVE rfind(_, _, _)
rfind(p, S, i) == IF i = 0 THEN 0
                  ELSE IF p[i] \in S THEN i ELSE rfind(p, S, i - 1)

\* os.path.splitext: the extension starts at the last dot of the last path
\* component, unless that component has only dots before it.  Both "/" and
\* "\" separate components (ntpath, the platform the batch script's paths are
\* written for); the requested paths modelled here split alike on posixpath.
splitext(p) ==
    LET sepIndex == rfind(p, {"/", "\\"}, Len(p))
        dotIndex == rfind(p, {"."}, Len(p))
    IN  IF dotIndex > sepIndex
           /\ \E k \in (sepIndex + 1)..(dotIndex - 1) : p[k] # "."
        THEN <<SubSeq(p, 1, dotIndex - 1), SubSeq(p, dotIndex, Len(p))>>
        ELSE <<p, <<>>>>

\* uuid.uuid4().hex[:6] of a uuid whose top 24 bits are v
hex6(v) == [i \in 1..SuffixLen |-> HexDigits[((v \div (16 ^ (SuffixLen - i))) % 16) + 1]]

\* the uuid prefixes the model draws, 000000, abcdef, 579bde, ...: a pool of
\* NumDraws values standing for the 16^6 values of the program
Draws == {(i * 11259375) % (16 ^ SuffixLen) : i \in 0..(NumDraws - 1)}

\* f"{base}_{counter}{ext}"
IncName(b, n, e) == b \o <<"_">> \o Str(n) \o e

\* f"{base}_{suffix}{ext}"
RandName(b, s, e) == b \o <<"_">> \o s \o e

\* os.path.exists
Exists(p) == p \in DOMAIN files

\* every path a call for f can test
Universe(f) ==
    LET sp == splitext(f)
    IN  {f} \cup {IncName(sp[1], n, sp[2]) : n \in 1..MaxN}
            \cup {RandName(sp[1], hex6(v), sp[2]) : v \in Draws}

\* the filesystem after writer w has written path p
WithFile(p, w) ==
    [q \in (DOMAIN files) \cup {p} |-> IF q = p THEN w ELSE files[q]]

----------------------------------------------------------------------------
(* apply_filename_strategy *)

\* return r: the engine only returns a string and creates nothing
Return_Touch(c, r) ==
    /\ output_file' = [output_file EXCEPT ![c] = r]
    /\ pc' = [pc EXCEPT ![c] = "returned"]
    /\ files' = WithFile(r, c)

Return(c, r) ==
    /\ output_file' = [output_file EXCEPT ![c] = r]
    /\ pc' = [pc EXCEPT ![c] = "returned"]
    /\ UNCHANGED files

Gate_Always(c) == TRUE

\* is_default_name or os.path.exists(filename)
Gate(c) == filename[c] = default_name \/ Exists(filename[c])

Branch_NoDefault(c) ==
    IF Gate(c)
    THEN (IF strategy[c] = "random" THEN "random" ELSE "increment")
    ELSE "asis"

\* which return path of the function the call takes
Branch(c) ==
    IF strategy[c] = "default" THEN "asis"
    ELSE IF strategy[c] = "increment" /\ Gate(c) THEN "increment"
    ELSE IF strategy[c] = "random" /\ Gate(c) THEN "random"
    ELSE "asis"

FirstCounter_Two(c) == 2

FirstCounter_Carry(c) == IF c = 1 THEN 1 ELSE counter[1]

\* counter = 1
FirstCounter(c) == 1

FirstCandidate_Numbered(c) == IncName(splitext(filename[c])[1], 1, splitext(filename[c])[2])

\* new_filename = filename
FirstCandidate(c) == filename[c]

RandAccepts_Any(c) == TRUE

\* the random loop ends on a name that does not exist
RandAccepts(c) == ~Exists(random_filename[c])

\* the body of the function up to its loops
Apply(c) ==
    /\ pc[c] = "apply"
    /\ checked' = [checked EXCEPT ![c] =
                      @ \/ (strategy[c] # "default" /\ filename[c] # default_name)]
    /\ IF Branch(c) = "asis"
       THEN /\ Return(c, filename[c])
            /\ UNCHANGED elocals
       ELSE /\ base' = [base EXCEPT ![c] = splitext(filename[c])[1]]
            /\ ext' = [ext EXCEPT ![c] = splitext(filename[c])[2]]
            /\ IF Branch(c) = "increment"
               THEN /\ counter' = [counter EXCEPT ![c] = FirstCounter(c)]
                    /\ new_filename' = [new_filename EXCEPT ![c] = FirstCandidate(c)]
                    /\ pc' = [pc EXCEPT ![c] = "inc_loop"]
                    /\ UNCHANGED random_filename
               ELSE /\ pc' = [pc EXCEPT ![c] = "rand_draw"]
                    /\ UNCHANGED <<counter, new_filename, random_filename>>
            /\ UNCHANGED <<files, output_file>>
    /\ UNCHANGED <<filename, strategy, dhist, ext_created, batchvars>>

\* one test of  while os.path.exists(new_filename)  and its body or the return
IncTest(c) ==
    /\ pc[c] = "inc_loop"
    /\ checked' = [checked EXCEPT ![c] = TRUE]
    /\ IF Exists(new_filename[c])
       THEN /\ new_filename' = [new_filename EXCEPT ![c] =
                                   IncName(base[c], counter[c], ext[c])]
            /\ counter' = [counter EXCEPT ![c] = @ + 1]
            /\ UNCHANGED <<files, pc, output_file>>
       ELSE /\ Return(c, new_filename[c])
            /\ UNCHANGED <<new_filename, counter>>
    /\ UNCHANGED <<filename, strategy, base, ext, random_filename, dhist,
                   ext_created, batchvars>>

\* suffix = uuid.uuid4().hex[:6]; random_filename = f"{base}_{suffix}{ext}"
RandDraw(c, v) ==
    /\ pc[c] = "rand_draw"
    /\ random_filename' = [random_filename EXCEPT ![c] =
                              RandName(base[c], hex6(v), ext[c])]
    /\ pc' = [pc EXCEPT ![c] = "rand_loop"]
    /\ UNCHANGED <<files, filename, strategy, output_file, checked, base, ext,
                   counter, new_filename, dhist, ext_created, batchvars>>

\* one test of  while os.path.exists(random_filename)
RandTest(c) ==
    /\ pc[c] = "rand_loop"
    /\ checked' = [checked EXCEPT ![c] = TRUE]
    /\ IF RandAccepts(c)
       THEN Return(c, random_filename[c])
       ELSE /\ pc' = [pc EXCEPT ![c] = "rand_draw"]
            /\ UNCHANGED <<files, output_file>>
    /\ UNCHANGED <<filename, strategy, elocals, dhist, ext_created, batchvars>>

Engine(c) ==
    \/ Apply(c)
    \/ IncTest(c)
    \/ \E v \in Draws : RandDraw(c, v)
    \/ RandTest(c)

----------------------------------------------------------------------------
(* Two calls in a row with the same arguments and an unchanged filesystem *)

Filenames == {default_name, custom_name, hidden_name}

Blank == [c \in Frames |-> NoPath]

InitLocals ==
    /\ output_file = Blank
    /\ checked = [c \in Frames |-> FALSE]
    /\ base = Blank
    /\ ext = Blank
    /\ counter = [c \in Frames |-> 0]
    /\ new_filename = Blank
    /\ random_filename = Blank
    /\ log = [c \in Frames |-> <<>>]
    /\ written = [c \in Frames |-> <<>>]
    /\ clobbered = [c \in Frames |-> FALSE]
    /\ ext_created = 0

InitBatchOff ==
    /\ bpc = "off"
    /\ idx = 0
    /\ invoked = <<>>
    /\ completed = <<>>

Init ==
    /\ \E f \in Filenames, s \in Strategies :
          /\ filename = [c \in Frames |-> f]
          /\ strategy = [c \in Frames |-> s]
          /\ \E S \in SUBSET Universe(f) : files = [p \in S |-> 0]
    /\ pc = [c \in Frames |-> IF c = 1 THEN "apply" ELSE "idle"]
    /\ InitLocals
    /\ InitBatchOff

\* the second call starts when the first has returned
Recall ==
    /\ pc[1] = "returned"
    /\ pc[2] = "idle"
    /\ pc' = [pc EXCEPT ![2] = "apply"]
    /\ UNCHANGED <<files, filename, strategy, output_file, checked, elocals,
                   dhist, ext_created, batchvars>>

Next ==
    \/ \E c \in Frames : Engine(c)
    \/ Recall

Spec == Init /\ [][Next]_vars

\* every step of the call is eventually taken, and a uuid value that can be
\* drawn again and again is eventually drawn
FairSpec ==
    /\ Spec
    /\ \A c \in Frames :
          /\ WF_vars(Apply(c))
          /\ WF_vars(IncTest(c))
          /\ WF_vars(RandTest(c))
          /\ \A v \in Draws : SF_vars(RandDraw(c, v))
    /\ WF_vars(Recall)

----------------------------------------------------------------------------
(* main() of args_voice.py: one driver process per frame *)

\* the statements of main before the filename is resolved, in program order
MainSteps ==
    <<"parse_args", "load_model", "load_tokenizer", "tok_desc", "tok_prompt",
      "generate", "to_numpy">>

StepIndex(l) == CHOOSE i \in 1..Len(MainSteps) : MainSteps[i] = l

\* the statement that follows statement l
next_step(l) ==
    IF StepIndex(l) < Len(MainSteps) THEN MainSteps[StepIndex(l) + 1] ELSE "apply"

OnError_Continue(l) == next_step(l)

\* an exception of a collaborator is caught nowhere: the process ends
OnError(l) == "failed"

\* sf.write(output_file, ...)
WriteTarget(d) == output_file[d]

Live(d) == pc[d] \notin {"idle", "done", "failed"}

\* one collaborator statement of main completes
Collaborate(d) ==
    /\ pc[d] \in {MainSteps[i] : i \in 1..Len(MainSteps)}
    /\ log' = [log EXCEPT ![d] = Append(@, pc[d])]
    /\ pc' = [pc EXCEPT ![d] = next_step(pc[d])]
    /\ UNCHANGED <<files, filename, strategy, output_file, checked, elocals,
                   written, clobbered, ext_created, batchvars>>

\* one collaborator statement of main raises
Raise(d) ==
    /\ pc[d] \in {MainSteps[i] : i \in 1..Len(MainSteps)}
    /\ pc' = [pc EXCEPT ![d] = OnError(pc[d])]
    /\ UNCHANGED <<files, filename, strategy, output_file, checked, elocals,
                   dhist, ext_created, batchvars>>

\* KeyboardInterrupt at any point: sys.exit("Interrupted by user")
Interrupt(d) ==
    /\ Live(d)
    /\ pc' = [pc EXCEPT ![d] = "failed"]
    /\ UNCHANGED <<files, filename, strategy, output_file, checked, elocals,
                   dhist, ext_created, batchvars>>

\* logger.info(...); sampling_rate = model.config.sampling_rate
SamplingRate(d) ==
    /\ pc[d] = "returned"
    /\ \/ pc' = [pc EXCEPT ![d] = "write"]
       \/ pc' = [pc EXCEPT ![d] = "failed"]
    /\ UNCHANGED <<files, filename, strategy, output_file, checked, elocals,
                   dhist, ext_created, batchvars>>

\* sf.write succeeds: the file at the target is created or replaced
Write(d) ==
    /\ pc[d] = "write"
    /\ written' = [written EXCEPT ![d] = Append(@, WriteTarget(d))]
    /\ clobbered' = [clobbered EXCEPT ![d] = Exists(WriteTarget(d))]
    /\ files' = WithFile(WriteTarget(d), d)
    /\ log' = [log EXCEPT ![d] = Append(@, "write")]
    /\ pc' = [pc EXCEPT ![d] = "done"]
    /\ UNCHANGED <<filename, strategy, output_file, checked, elocals,
                   ext_created, batchvars>>

\* sf.write raises: the target may or may not have been opened for writing
WriteFail(d) ==
    /\ pc[d] = "write"
    /\ written' = [written EXCEPT ![d] = Append(@, WriteTarget(d))]
    /\ \/ /\ files' = WithFile(WriteTarget(d), d)
          /\ clobbered' = [clobbered EXCEPT ![d] = Exists(WriteTarget(d))]
       \/ UNCHANGED <<files, clobbered>>
    /\ pc' = [pc EXCEPT ![d] = "failed"]
    /\ UNCHANGED <<filename, strategy, output_file, checked, elocals, log,
                   ext_created, batchvars>>

Driver(d) ==
    \/ Collaborate(d)
    \/ Raise(d)
    \/ Interrupt(d)
    \/ SamplingRate(d)
    \/ Write(d)
    \/ WriteFail(d)

\* another process creates a file the drivers may test or write
External ==
    /\ ext_created < MaxExternal
    /\ \E d \in Frames : \E p \in Universe(filename[d]) \ DOMAIN files :
          files' = WithFile(p, 0)
    /\ ext_created' = ext_created + 1
    /\ UNCHANGED <<pc, filename, strategy, output_file, checked, elocals,
                   dhist, batchvars>>

DriverNames == {default_name, custom_name}

InitDriver ==
    /\ \E f \in DriverNames :
          /\ filename = [d \in Frames |-> f]
          /\ \E S \in SUBSET {f, IncName(splitext(f)[1], 1, splitext(f)[2])} :
                files = [p \in S |-> 0]
    /\ strategy \in [Frames -> Strategies]
    /\ pc = [d \in Frames |-> "parse_args"]
    /\ InitLocals
    /\ InitBatchOff

NextDriver ==
    \/ \E d \in Frames : Driver(d) \/ Engine(d)
    \/ External

SpecDriver == InitDriver /\ [][NextDriver]_vars

----------------------------------------------------------------------------
(* generate_samples.py: the child process is frame 1 *)

male_speakers ==
    << <<"J","o","n">>, <<"G","a","r","y">>, <<"M","i","k","e">>,
       <<"W","i","l","l">>, <<"P","a","t","r","i","c","k">>,
       <<"E","r","i","c">>, <<"R","i","c","k">> >>

female_speakers ==
    << <<"L","e","a">>, <<"J","e","n","n","a">>, <<"L","a","u","r","a">>,
       <<"L","a","u","r","e","n">>, <<"E","i","l","e","e","n">>,
       <<"A","l","i","s","a">>, <<"K","a","r","e","n">>,
       <<"B","a","r","b","a","r","a">>, <<"C","a","r","o","l">>,
       <<"E","m","i","l","y">>, <<"R","o","s","e">>, <<"A","n","n","a">>,
       <<"T","i","n","a">> >>

\* f".\\{speaker}.wav"
SpeakerPath(s) == <<".", "\\">> \o s \o <<".","w","a","v">>

CurrentList == IF bpc = "male" THEN male_speakers ELSE female_speakers

Aborts_Never(rc) == FALSE

\* check=True: a non-zero exit status raises CalledProcessError
Aborts(rc) == rc # 0

\* subprocess.run(cmd, ...) starts the child for the current speaker
BatchRun ==
    /\ bpc \in {"male", "female"}
    /\ pc[1] = "idle"
    /\ idx <= Len(CurrentList)
    /\ filename' = [filename EXCEPT ![1] = SpeakerPath(CurrentList[idx])]
    /\ strategy' = [strategy EXCEPT ![1] = "default"]
    /\ pc' = [pc EXCEPT ![1] = "parse_args"]
    /\ output_file' = [output_file EXCEPT ![1] = NoPath]
    /\ checked' = [checked EXCEPT ![1] = FALSE]
    /\ log' = [log EXCEPT ![1] = <<>>]
    /\ written' = [written EXCEPT ![1] = <<>>]
    /\ clobbered' = [clobbered EXCEPT ![1] = FALSE]
    /\ invoked' = Append(invoked, CurrentList[idx])
    /\ UNCHANGED <<files, elocals, ext_created, bpc, idx, completed>>

\* subprocess.run returns, or raises on a non-zero exit status
BatchWait ==
    /\ bpc \in {"male", "female"}
    /\ pc[1] \in {"done", "failed"}
    /\ LET returncode == IF pc[1] = "done" THEN 0 ELSE 1
       IN  /\ IF Aborts(returncode)
              THEN /\ bpc' = "aborted"
                   /\ UNCHANGED idx
              ELSE /\ idx' = idx + 1
                   /\ UNCHANGED bpc
           /\ completed' = IF returncode = 0
                           THEN Append(completed, CurrentList[idx])
                           ELSE completed
    /\ pc' = [pc EXCEPT ![1] = "idle"]
    /\ UNCHANGED <<files, filename, strategy, output_file, checked, elocals,
                   dhist, ext_created, invoked>>

\* a for loop is exhausted: the next loop starts, or the script ends
BatchNextList ==
    /\ bpc \in {"male", "female"}
    /\ pc[1] = "idle"
    /\ idx > Len(CurrentList)
    /\ bpc' = IF bpc = "male" THEN "female" ELSE "exited"
    /\ idx' = 1
    /\ UNCHANGED <<files, pc, filename, strategy, output_file, checked,
                   elocals, dhist, ext_created, invoked, completed>>

InitBatch ==
    /\ \E S \in SUBSET {SpeakerPath(male_speakers[1]), SpeakerPath(female_speakers[1])} :
          files = [p \in S |-> 0]
    /\ filename = Blank
    /\ strategy = [c \in Frames |-> "default"]
    /\ pc = [c \in Frames |-> "idle"]
    /\ InitLocals
    /\ bpc = "male"
    /\ idx = 1
    /\ invoked = <<>>
    /\ completed = <<>>

NextBatch ==
    \/ BatchRun
    \/ BatchWait
    \/ BatchNextList
    \/ Driver(1)
    \/ Apply(1)

SpecBatch == InitBatch /\ [][NextBatch]_vars

----------------------------------------------------------------------------
(* Properties of apply_filename_strategy, checked under Spec and FairSpec *)

parler_tts_out_1 ==
    <<"p","a","r","l","e","r","_","t","t","s","_","o","u","t","_","1",".","w","a","v">>

parler_tts_out_2 ==
    <<"p","a","r","l","e","r","_","t","t","s","_","o","u","t","_","2",".","w","a","v">>

LowerHex == {"0","1","2","3","4","5","6","7","8","9","a","b","c","d","e","f"}

Returned(c) == pc[c] = "returned"

Triggered(c) == filename[c] = default_name \/ Exists(filename[c])

\* r is base_N.ext for the smallest N >= 1 whose base_N.ext does not exist
IsNextNumbered(c, r) ==
    LET sp == splitext(filename[c])
    IN  /\ ~Exists(r)
        /\ \E N \in 1..(Cardinality(DOMAIN files) + 1) :
              /\ r = sp[1] \o <<"_">> \o Str(N) \o sp[2]
              /\ \A k \in 1..(N - 1) : Exists(sp[1] \o <<"_">> \o Str(k) \o sp[2])

\* r is base_<6 lower-case hex characters>.ext
IsHexSuffixed(c, r) ==
    LET sp == splitext(filename[c])
        n  == Len(sp[1])
    IN  /\ Len(r) = Len(filename[c]) + 7
        /\ SubSeq(r, 1, n) = sp[1]
        /\ r[n + 1] = "_"
        /\ \A i \in 1..6 : r[n + 1 + i] \in LowerHex
        /\ SubSeq(r, n + 8, Len(r)) = sp[2]

\* C1 as stated: under increment, whenever the requested path is the default
\* name or exists, the result does not exist and is base_N.ext with the
\* smallest free N >= 1.
C1_Original ==
    \A c \in Frames :
        (Returned(c) /\ strategy[c] = "increment" /\ Triggered(c))
            => IsNextNumbered(c, output_file[c])

\* C1 amended: under increment, whenever the requested path exists, the result
\* does not exist and is base_N.ext with the smallest free N >= 1 (with
\* parler_tts_out.wav and parler_tts_out_1.wav present it is
\* parler_tts_out_2.wav); when the requested path is the default name and does
\* not exist, the result is the requested path itself.
C1_Amended ==
    \A c \in Frames :
        (Returned(c) /\ strategy[c] = "increment") =>
            /\ Exists(filename[c]) => IsNextNumbered(c, output_file[c])
            /\ (filename[c] = default_name /\ ~Exists(default_name))
                  => output_file[c] = default_name
            /\ (filename[c] = default_name /\ Exists(default_name)
                  /\ Exists(parler_tts_out_1) /\ ~Exists(parler_tts_out_2))
                  => output_file[c] = parler_tts_out_2

C1_Witness ==
    /\ Returned(1)
    /\ strategy[1] = "increment"
    /\ filename[1] = default_name
    /\ Exists(default_name)
    /\ Exists(parler_tts_out_1)
    /\ output_file[1] = parler_tts_out_2

\* C3: under random, whenever the requested path is the default name or
\* exists, the result is base_<6 lower-case hex characters>.ext and does not
\* exist; a candidate that exists is never returned.
C3_RandomFresh ==
    \A c \in Frames :
        (Returned(c) /\ strategy[c] = "random" /\ Triggered(c)) =>
            /\ ~Exists(output_file[c])
            /\ IsHexSuffixed(c, output_file[c])

C3_Witness ==
    /\ Returned(1)
    /\ strategy[1] = "random"
    /\ Exists(filename[1])
    /\ \E v \in Draws : Exists(RandName(base[1], hex6(v), ext[1]))
    /\ ~Exists(output_file[1])
    /\ output_file[1] # filename[1]

\* C4: under increment and random, a requested path that is not the default
\* name and does not exist is returned unchanged.
C4_GateNotTriggered ==
    \A c \in Frames :
        (Returned(c) /\ strategy[c] \in {"increment", "random"}
            /\ filename[c] # default_name /\ ~Exists(filename[c]))
            => output_file[c] = filename[c]

C4_Witness ==
    /\ Returned(1)
    /\ strategy[1] = "random"
    /\ filename[1] = custom_name
    /\ ~Exists(custom_name)
    /\ output_file[1] = custom_name

\* C5: every call of apply_filename_strategy eventually returns, whatever the
\* requested path, the strategy and the filesystem.
C5_AlwaysReturns ==
    \A c \in Frames : (pc[c] = "apply") ~> (pc[c] = "returned")

\* the part of C5 the code keeps: default and increment calls always return,
\* and a random call returns when some drawable name is free
C5_ReturnsWhenFree ==
    \A c \in Frames :
        (pc[c] = "apply"
            /\ (strategy[c] = "random" =>
                   \E v \in Draws :
                       ~Exists(RandName(splitext(filename[c])[1], hex6(v),
                                        splitext(filename[c])[2]))))
            ~> (pc[c] = "returned")

\* C6: two calls in a row with the same arguments and an unchanged filesystem
\* return the same path under default and under increment.
C6_SameResult ==
    (Returned(1) /\ Returned(2) /\ strategy[1] \in {"default", "increment"})
        => output_file[1] = output_file[2]

C6_Witness ==
    /\ Returned(1)
    /\ Returned(2)
    /\ strategy[1] = "increment"
    /\ Exists(filename[1])
    /\ output_file[1] = output_file[2]
    /\ output_file[1] # filename[1]

\* the random half of C6: two such calls can return different paths
C6_RandomCanDiffer ==
    /\ Returned(1)
    /\ Returned(2)
    /\ strategy[1] = "random"
    /\ output_file[1] # output_file[2]

\* C10: under increment a requested path that does not exist is returned
\* itself, the default name included; under random the default name always
\* receives a suffix.
C10_IncrementOnlyIfExists ==
    \A c \in Frames :
        Returned(c) =>
            /\ (strategy[c] = "increment" /\ ~Exists(filename[c]))
                  => output_file[c] = filename[c]
            /\ (strategy[c] = "random" /\ filename[c] = default_name)
                  => (output_file[c] # default_name
                        /\ IsHexSuffixed(c, output_file[c]))

C10_Witness ==
    /\ Returned(1)
    /\ strategy[1] = "increment"
    /\ filename[1] = default_name
    /\ ~Exists(default_name)
    /\ Exists(parler_tts_out_1)
    /\ output_file[1] = default_name

----------------------------------------------------------------------------
(* Properties of main(), checked under SpecDriver *)

EnginePcs == {"apply", "inc_loop", "rand_draw", "rand_loop"}

IsPrefix(a, b) == Len(a) <= Len(b) /\ SubSeq(b, 1, Len(a)) = a

\* C2: under default the engine returns exactly the requested path, without
\* testing any path, and the driver writes to that path, replacing the file
\* when it exists.
C2_DefaultAsIs ==
    \A d \in Frames :
        strategy[d] = "default" =>
            /\ ~checked[d]
            /\ pc[d] \in {"returned", "write", "done"} => output_file[d] = filename[d]
            /\ written[d] # <<>> => written[d] = <<filename[d]>>
            /\ pc[d] = "done" => Exists(filename[d])

C2_Witness ==
    \E d \in Frames :
        /\ strategy[d] = "default"
        /\ pc[d] = "done"
        /\ clobbered[d]
        /\ ext_created = 0
        /\ files[filename[d]] = d

\* a step of apply_filename_strategy in frame d
EngineMoved(d) ==
    /\ pc[d] \in EnginePcs
    /\ pc'[d] \in EnginePcs \cup {"returned"}
    /\ <<pc'[d], counter'[d], random_filename'[d]>>
          # <<pc[d], counter[d], random_filename[d]>>

\* C7: the resolution is check-then-use without locking: no step of the
\* engine changes the filesystem, and the write goes to the resolved path
\* whether or not it exists by then.
C7_CheckThenUse ==
    [][\A d \in Frames :
          /\ EngineMoved(d) => files' = files
          /\ (pc[d] = "write" /\ pc'[d] = "done")
                => files' = WithFile(output_file[d], d)]_vars

\* two concurrent increment invocations resolved to the same path and the
\* second write replaced the first
C7_Witness ==
    /\ pc[1] = "done"
    /\ pc[2] = "done"
    /\ strategy[1] = "increment"
    /\ strategy[2] = "increment"
    /\ filename[1] = filename[2]
    /\ Exists(filename[1])
    /\ ext_created = 0
    /\ output_file[1] = output_file[2]
    /\ output_file[1] # filename[1]
    /\ clobbered[1] # clobbered[2]

\* a file another process created after the check is replaced by the write
C7_ExternalRace ==
    \E d \in Frames :
        /\ pc[d] = "done"
        /\ strategy[d] \in {"increment", "random"}
        /\ strategy[3 - d] = "default"
        /\ pc[3 - d] = "parse_args"
        /\ output_file[d] # filename[d]
        /\ clobbered[d]

C9_Order == <<"load_model", "tok_desc", "tok_prompt", "generate">>

C9_Steps(d) == SelectSeq(log[d], LAMBDA l : l \in {C9_Order[i] : i \in 1..4})

\* C9: the steps of one invocation happen in the order load model, tokenize
\* description, tokenize prompt, generate, resolve filename, write; the engine
\* runs only after generation succeeded, the writer is invoked at most once
\* and only with the path the engine returned, and a failure before the
\* resolution ends the run with no existence check and no file written.
C9_FixedOrder ==
    \A d \in Frames :
        /\ IsPrefix(C9_Steps(d), C9_Order)
        /\ (pc[d] \in EnginePcs \cup {"returned", "write", "done"} \/ checked[d]
               \/ output_file[d] # NoPath)
              => C9_Steps(d) = C9_Order
        /\ Len(written[d]) <= 1
        /\ written[d] # <<>> =>
              /\ output_file[d] # NoPath
              /\ written[d] = <<output_file[d]>>
        /\ (pc[d] = "failed" /\ \A i \in 1..Len(log[d]) : log[d][i] # "to_numpy")
              => /\ ~checked[d]
                 /\ output_file[d] = NoPath
                 /\ written[d] = <<>>
                 /\ \A p \in DOMAIN files : files[p] # d

C9_Witness ==
    \E d \in Frames :
        /\ pc[d] = "done"
        /\ strategy[d] = "increment"
        /\ Exists(filename[d])
        /\ written[d] = <<output_file[d]>>
        /\ output_file[d] # filename[d]
        /\ pc[3 - d] = "failed"
        /\ C9_Steps(3 - d) = <<"load_model", "tok_desc", "tok_prompt">>

----------------------------------------------------------------------------
(* Properties of generate_samples.py, checked under SpecBatch *)

C8_Order == male_speakers \o female_speakers

\* C8: the batch runs one invocation at a time in list order, males first,
\* starts one only after the previous one exited with status 0, and after a
\* failure invokes nobody and retries nothing: the completed speakers are a
\* prefix of the list.
C8_FailFast ==
    /\ IsPrefix(completed, C8_Order)
    /\ IsPrefix(invoked, C8_Order)
    /\ Len(invoked) \in {Len(completed), Len(completed) + 1}
    /\ pc[1] # "idle" => Len(invoked) = Len(completed) + 1
    /\ bpc = "aborted" => (pc[1] = "idle" /\ Len(invoked) = Len(completed) + 1)
    /\ bpc = "exited" => completed = C8_Order
    /\ bpc = "female" => IsPrefix(male_speakers, completed)

C8_Witness ==
    /\ bpc = "aborted"
    /\ completed = male_speakers \o <<female_speakers[1]>>
    /\ Len(invoked) = Len(male_speakers) + 2

====
